---- MODULE Spec2Model ----
(***************************************************************************)
(* Model of the two server-side request handlers of tmdb-test:             *)
(*   - the Intent Parser endpoint  (src/src/pages/api/ai-search-parser.ts) *)
(*   - the Catalog Gateway endpoint (src/src/pages/api/tmdb-proxy.ts, which*)
(*     holds two definitions of the handler, lines 6-58 and lines 67-127). *)
(*                                                                         *)
(* Strings whose characters the code inspects (search terms, parameter     *)
(* values) are sequences of one-character strings, so that toLowerCase,    *)
(* trim and includes are computed character by character.  Strings the     *)
(* code only passes around or hands to a library parser (paths, JSON       *)
(* texts, messages, object keys) are TLA+ strings.                         *)
(***************************************************************************)
EXTENDS Integers, Sequences, FiniteSets, TLC

(***************************************************************************)
(* Bounds                                                                  *)
(***************************************************************************)
\* a search term is the concatenation of at most MaxChunks chunks
MaxChunks == 2
\* a gateway request carries at most MaxParams parameters besides path
MaxParams == 2

(***************************************************************************)
(* JavaScript strings: String.prototype.toLowerCase / trim / includes      *)
(***************************************************************************)
UpperCase ==
  <<"A","B","C","D","E","F","G","H","I","J","K","L","M",
    "N","O","P","Q","R","S","T","U","V","W","X","Y","Z">>
LowerCase ==
  <<"a","b","c","d","e","f","g","h","i","j","k","l","m",
    "n","o","p","q","r","s","t","u","v","w","x","y","z">>
WhiteSpace == {" ", "\t", "\n"}

toLowerCaseChar(c) ==
  IF \E i \in 1..26 : UpperCase[i] = c
    THEN LowerCase[CHOOSE i \in 1..26 : UpperCase[i] = c]
    ELSE c

toLowerCase(s) == [i \in 1..Len(s) |-> toLowerCaseChar(s[i])]

RECURSIVE trimStart(_)
trimStart(s) ==
  IF s # <<>> /\ Head(s) \in WhiteSpace THEN trimStart(Tail(s)) ELSE s

RECURSIVE trimEnd(_)
trimEnd(s) ==
  IF s # <<>> /\ s[Len(s)] \in WhiteSpace
    THEN trimEnd(SubSeq(s, 1, Len(s) - 1))
    ELSE s

trim(s) == trimEnd(trimStart(s))

includes(s, k) ==
  \E i \in 0..(Len(s) - Len(k)) : SubSeq(s, i + 1, i + Len(k)) = k

(***************************************************************************)
(* JavaScript values, tagged by kind, each kind with its own field for    *)
(* its content; typeof and truthiness as in JS                             *)
(***************************************************************************)
JSUndefined == [t |-> "undefined"]
JSNull      == [t |-> "null"]
JSStr(s)    == [t |-> "string", v |-> s]
JSNum(n)    == [t |-> "number", n |-> n]
JSArr(a)    == [t |-> "array",  items |-> a]
JSObj(f)    == [t |-> "object", fields |-> f]

typeof(x) ==
  CASE x.t = "undefined" -> "undefined"
    [] x.t = "null"      -> "object"
    [] x.t = "string"    -> "string"
    [] x.t = "number"    -> "number"
    [] x.t = "array"     -> "object"
    [] x.t = "object"    -> "object"

\* ToBoolean of a value; string values here are character sequences
truthy(x) ==
  CASE x.t = "undefined" -> FALSE
    [] x.t = "null"      -> FALSE
    [] x.t = "string"    -> Len(x.v) > 0
    [] x.t = "number"    -> x.n # 0
    [] x.t = "array"     -> TRUE
    [] x.t = "object"    -> TRUE

\* x.k : a TypeError on null and undefined, undefined where there is no
\* such own property
GetProp(x, k) ==
  IF x.t \in {"undefined", "null"}
    THEN [throws |-> TRUE]
    ELSE IF x.t = "object" /\ k \in DOMAIN x.fields
      THEN [throws |-> FALSE, value |-> x.fields[k]]
      ELSE [throws |-> FALSE, value |-> JSUndefined]

(***************************************************************************)
(* Keyword phrases and literal values of ai-search-parser.ts               *)
(***************************************************************************)
KW_mind_bending == <<"m","i","n","d","-","b","e","n","d","i","n","g">>
KW_sci_fi       == <<"s","c","i","-","f","i">>
KW_best_of_2024 == <<"b","e","s","t"," ","o","f"," ","2","0","2","4">>
KW_newest_hits  == <<"n","e","w","e","s","t"," ","h","i","t","s">>
KW_best         == <<"b","e","s","t">>
KW_top_rated    == <<"t","o","p"," ","r","a","t","e","d">>

V_878             == <<"8","7","8">>
V_7_5             == <<"7",".","5">>
V_7               == <<"7">>
V_2024            == <<"2","0","2","4">>
V_8_5             == <<"8",".","5">>
V_vote_count_desc == <<"v","o","t","e","_","c","o","u","n","t",".","d","e","s","c">>

SearchIntent(path, params) ==
  JSObj(("path" :> JSStr(path)) @@ ("params" :> JSObj(params)))

SciFiIntent ==
  SearchIntent("discover/movie",
               ("with_genres" :> JSStr(V_878)) @@ ("vote_average.gte" :> JSStr(V_7_5)))
Best2024Intent ==
  SearchIntent("discover/movie",
               ("vote_average.gte" :> JSStr(V_7)) @@ ("primary_release_year" :> JSStr(V_2024)))
TopRatedIntent ==
  SearchIntent("discover/movie",
               ("vote_average.gte" :> JSStr(V_8_5)) @@ ("sort_by" :> JSStr(V_vote_count_desc)))
TextSearchIntent(q) ==
  SearchIntent("search/movie", ("query" :> JSStr(q)))

(***************************************************************************)
(* mockLLM_Parse: the keyword heuristic.  The parameter is reassigned to   *)
(* its lower-cased, trimmed form on entry, and that reassigned value is    *)
(* what the last return statement reads.                                   *)
(***************************************************************************)
\* variant without toLowerCase: the sensitivity test of C3
mockLLM_Parse_CaseSensitive(searchTerm0) ==
  LET searchTerm == trim(searchTerm0) IN
  IF includes(searchTerm, KW_mind_bending) \/ includes(searchTerm, KW_sci_fi)
    THEN SciFiIntent
  ELSE IF includes(searchTerm, KW_best_of_2024) \/ includes(searchTerm, KW_newest_hits)
    THEN Best2024Intent
  ELSE IF includes(searchTerm, KW_best) \/ includes(searchTerm, KW_top_rated)
    THEN TopRatedIntent
  ELSE TextSearchIntent(searchTerm)

\* variant testing "best" before "best of 2024": the sensitivity test of C4
mockLLM_Parse_GenericFirst(searchTerm0) ==
  LET searchTerm == trim(toLowerCase(searchTerm0)) IN
  IF includes(searchTerm, KW_mind_bending) \/ includes(searchTerm, KW_sci_fi)
    THEN SciFiIntent
  ELSE IF includes(searchTerm, KW_best) \/ includes(searchTerm, KW_top_rated)
    THEN TopRatedIntent
  ELSE IF includes(searchTerm, KW_best_of_2024) \/ includes(searchTerm, KW_newest_hits)
    THEN Best2024Intent
  ELSE TextSearchIntent(searchTerm)

\* variant keeping the query beside the genre filter: the sensitivity test
\* of C16
mockLLM_Parse_QueryKept(searchTerm0) ==
  LET searchTerm == trim(toLowerCase(searchTerm0)) IN
  IF includes(searchTerm, KW_mind_bending) \/ includes(searchTerm, KW_sci_fi)
    THEN SearchIntent("discover/movie",
                      ("with_genres" :> JSStr(V_878)) @@ ("query" :> JSStr(searchTerm)))
  ELSE IF includes(searchTerm, KW_best_of_2024) \/ includes(searchTerm, KW_newest_hits)
    THEN Best2024Intent
  ELSE IF includes(searchTerm, KW_best) \/ includes(searchTerm, KW_top_rated)
    THEN TopRatedIntent
  ELSE TextSearchIntent(searchTerm)

mockLLM_Parse(searchTerm0) ==
  LET searchTerm == trim(toLowerCase(searchTerm0)) IN
  IF includes(searchTerm, KW_mind_bending) \/ includes(searchTerm, KW_sci_fi)
    THEN SciFiIntent
  ELSE IF includes(searchTerm, KW_best_of_2024) \/ includes(searchTerm, KW_newest_hits)
    THEN Best2024Intent
  ELSE IF includes(searchTerm, KW_best) \/ includes(searchTerm, KW_top_rated)
    THEN TopRatedIntent
  ELSE TextSearchIntent(searchTerm)

(***************************************************************************)
(* JSON texts: what the language model's response.text holds.  JSON.parse  *)
(* and String.prototype.trim on these texts are given by their results on  *)
(* each text.                                                              *)
(***************************************************************************)
T_search_dune     == "{\"path\":\"search/movie\",\"params\":{\"query\":\"dune\"}}"
T_discover_genre  == "{\"path\":\"discover/movie\",\"params\":{\"with_genres\":\"878\"}}"
T_padded_discover == "  {\"path\":\"discover/movie\",\"params\":{\"with_genres\":\"878\"}}\n"
T_blank           == "   "
T_not_json        == "I cannot help with that."
T_null            == "null"
T_number          == "42"
T_empty_object    == "{}"
T_path_number     == "{\"path\":5,\"params\":{}}"
T_params_null     == "{\"path\":\"discover/movie\",\"params\":null}"
T_params_array    == "{\"path\":\"discover/movie\",\"params\":[]}"
T_params_string   == "{\"path\":\"search/movie\",\"params\":\"dune\"}"
T_no_params       == "{\"path\":\"search/movie\"}"
T_other_path      == "{\"path\":\"movie/popular\",\"params\":{}}"
T_discover_query  == "{\"path\":\"discover/movie\",\"params\":{\"query\":\"dune\"}}"
T_empty_path      == "{\"path\":\"\",\"params\":{}}"
T_params_path     ==
  "{\"path\":\"search/movie\",\"params\":{\"path\":\"https://evil.example/x\"}}"

\* bodies the catalog provider answers with
B_results    == "{\"page\":1,\"results\":[]}"
B_no_results == "{\"page\":1}"
B_error      == "{\"status_code\":34}"
B_html       == "<html>Bad Gateway</html>"

LLMTexts ==
  { "", T_search_dune, T_discover_genre, T_padded_discover, T_blank, T_not_json,
    T_null, T_number, T_empty_object, T_path_number, T_params_null,
    T_params_array, T_params_string, T_no_params, T_other_path,
    T_discover_query, T_empty_path, T_params_path }

V_dune == <<"d","u","n","e">>

\* text.trim() on the texts above
text_trim(text) ==
  CASE text = T_padded_discover -> T_discover_genre
    [] text = T_blank           -> ""
    [] OTHER                    -> text

Parsed(v)   == [ok |-> TRUE, value |-> v]
SyntaxError == [ok |-> FALSE, value |-> JSUndefined]

\* JSON.parse(text): the parsed value, or a SyntaxError
JSON_parse(text) ==
  CASE text = T_search_dune ->
         Parsed(SearchIntent("search/movie", ("query" :> JSStr(V_dune))))
    [] text = T_discover_genre ->
         Parsed(SearchIntent("discover/movie", ("with_genres" :> JSStr(V_878))))
    [] text = T_padded_discover ->
         Parsed(SearchIntent("discover/movie", ("with_genres" :> JSStr(V_878))))
    [] text = T_null -> Parsed(JSNull)
    [] text = T_number -> Parsed(JSNum(42))
    [] text = T_empty_object -> Parsed(JSObj(<<>>))
    [] text = T_path_number ->
         Parsed(JSObj(("path" :> JSNum(5)) @@ ("params" :> JSObj(<<>>))))
    [] text = T_params_null ->
         Parsed(JSObj(("path" :> JSStr("discover/movie")) @@ ("params" :> JSNull)))
    [] text = T_params_array ->
         Parsed(JSObj(("path" :> JSStr("discover/movie")) @@ ("params" :> JSArr(<<>>))))
    [] text = T_params_string ->
         Parsed(JSObj(("path" :> JSStr("search/movie")) @@ ("params" :> JSStr(V_dune))))
    [] text = T_no_params ->
         Parsed(JSObj("path" :> JSStr("search/movie")))
    [] text = T_other_path -> Parsed(SearchIntent("movie/popular", <<>>))
    [] text = T_discover_query ->
         Parsed(SearchIntent("discover/movie", ("query" :> JSStr(V_dune))))
    [] text = T_empty_path -> Parsed(SearchIntent("", <<>>))
    [] text = T_params_path ->
         Parsed(SearchIntent("search/movie",
                             ("path" :> JSStr("https://evil.example/x"))))
    [] text = B_results ->
         Parsed(JSObj(("page" :> JSNum(1)) @@ ("results" :> JSArr(<<>>))))
    [] text = B_no_results -> Parsed(JSObj("page" :> JSNum(1)))
    [] text = B_error -> Parsed(JSObj("status_code" :> JSNum(34)))
    [] OTHER -> SyntaxError

(***************************************************************************)
(* Outcomes of aiClient.models.generateContent (the one remote call of the *)
(* Intent Parser): the call rejects, or resolves with a response whose     *)
(* text is undefined or a string.                                          *)
(***************************************************************************)
LLMOutcomes ==
  { [kind |-> "rejects", text |-> ""], [kind |-> "no_text", text |-> ""] }
    \cup { [kind |-> "text", text |-> t] : t \in LLMTexts }

\* variant returning the normalized term: the sensitivity test of C2
MinimalFallback_Normalized(searchTerm) ==
  TextSearchIntent(trim(toLowerCase(searchTerm)))

\* the descriptor of the catch block of realLLM_Parse
MinimalFallback(searchTerm) == TextSearchIntent(searchTerm)

\* the "Final sanity check" of realLLM_Parse; reading .path of null or
\* undefined is a TypeError, caught like the errors the code throws itself
SanityCheckFails(parsedResult) ==
  LET path   == GetProp(parsedResult, "path")
      params == GetProp(parsedResult, "params")
  IN  \/ path.throws
      \/ typeof(path.value) # "string"
      \/ typeof(params.value) # "object"

\* realLLM_Parse from the completion of generateContent to its return: the
\* body of the try block and the catch block
realLLM_Parse_resume(searchTerm, outcome) ==
  IF outcome.kind = "rejects" THEN MinimalFallback(searchTerm)
  ELSE IF outcome.kind = "no_text" \/ outcome.text = "" THEN MinimalFallback(searchTerm)
  ELSE LET parsed == JSON_parse(text_trim(outcome.text)) IN
       IF ~parsed.ok THEN MinimalFallback(searchTerm)
       ELSE IF SanityCheckFails(parsed.value) THEN MinimalFallback(searchTerm)
       ELSE parsed.value

(***************************************************************************)
(* State.  The handlers keep no state between requests; the state below is *)
(* the process configuration (read once at start) and the request being    *)
(* served: where its handler stands, its response, and the outbound calls  *)
(* it has made.                                                            *)
(***************************************************************************)
VARIABLES
  AI_API_KEY,   \* process.env.AI_API_KEY ("" when unset)
  TMDB_TOKEN,   \* process.env.TMDB_ACCESS_TOKEN ("" when unset)
  pc,           \* "idle", "awaitLLM", "awaitTMDB" or "done"
  endpoint,     \* the handler serving the request
  req,          \* the request: method and query
  res,          \* the response: status and JSON body (status 0: none yet)
  parse,        \* realLLM_Parse: not_called, pending, returned or rejected
  tmdbUrl,      \* the URL the gateway built and fetched
  upstream,     \* how the request's outbound call ended (kind "none": not yet)
  llmCalls,     \* generateContent calls made for this request
  fetchCalls,   \* fetch calls made for this request
  browser       \* the page: where handleSearch stands and its search state

vars ==
  <<AI_API_KEY, TMDB_TOKEN, pc, endpoint, req, res, parse, tmdbUrl,
    upstream, llmCalls, fetchCalls, browser>>

Methods == {"GET", "POST"}

NoResponse == [status |-> 0, body |-> JSUndefined]
NoURL      == [throws |-> FALSE, origin |-> "", pathname |-> "", searchParams |-> <<>>]
NoOutcome  == [kind |-> "none"]
NotCalled  == [state |-> "not_called", result |-> JSUndefined]
Pending    == [state |-> "pending",    result |-> JSUndefined]
Rejected   == [state |-> "rejected",   result |-> JSUndefined]
Returned(r) == [state |-> "returned",  result |-> r]

Message(m) == JSObj("message" :> JSStr(m))

M_MethodNotAllowed == "Method Not Allowed"
M_BadSearchTerm    == "Missing or invalid \"searchTerm\" query parameter."
M_AIFailed         == "AI query processing failed"
M_ConfigError      == "Server configuration error: TMDB_ACCESS_TOKEN is missing."
M_BadPath          == "Missing or invalid \"path\" query parameter."
M_NetworkError     == "Server network error when connecting to TMDB."
M_TMDBFailed       == "TMDB API failed with status"

\* res.status(s).json(b), which ends the request
Reply(s, b) ==
  /\ res' = [status |-> s, body |-> b]
  /\ pc' = "done"

(***************************************************************************)
(* Search terms                                                            *)
(***************************************************************************)
Chunks ==
  { KW_sci_fi,
    <<"S","C","I","-","F","i">>,
    <<"M","i","n","d","-","B","e","n","d","i","n","g">>,
    KW_best,
    <<" ","o","f"," ","2","0","2","4">>,
    <<"B","E","S","T"," ","O","F"," ","2","0","2","4">>,
    <<"N","e","w","e","s","t"," ","H","i","t","s">>,
    <<"T","o","p"," ","R","a","t","e","d">>,
    <<" ">>,
    <<"D","u","n","e">>,
    <<"s","c","i">> }

RECURSIVE TermsOf(_)
TermsOf(n) ==
  IF n = 0 THEN {<<>>}
  ELSE LET P == TermsOf(n - 1) IN P \cup {p \o c : p \in P, c \in Chunks}

Terms == TermsOf(MaxChunks)

\* req.query.searchTerm: absent, repeated (a list), or a string
SearchTermParams ==
  {JSUndefined, JSArr(<<V_dune, KW_sci_fi>>)} \cup {JSStr(t) : t \in Terms}

(***************************************************************************)
(* The Intent Parser endpoint: handler of ai-search-parser.ts up to its    *)
(* first suspension.  realLLM_Parse runs inside it: without a credential   *)
(* it returns mockLLM_Parse's result at once; with one it constructs the   *)
(* client (outside its try block) and awaits generateContent.              *)
(***************************************************************************)
parser_begin(method, searchTerm, constructs) ==
  /\ endpoint' = "ai-search-parser"
  /\ req' = [method |-> method, query |-> [searchTerm |-> searchTerm]]
  /\ tmdbUrl' = NoURL
  /\ upstream' = NoOutcome
  /\ fetchCalls' = 0
  /\ IF method # "GET" THEN
       /\ Reply(405, Message(M_MethodNotAllowed))
       /\ parse' = NotCalled
       /\ llmCalls' = 0
     ELSE IF typeof(searchTerm) # "string" \/ trim(searchTerm.v) = <<>> THEN
       /\ Reply(400, Message(M_BadSearchTerm))
       /\ parse' = NotCalled
       /\ llmCalls' = 0
     ELSE IF AI_API_KEY = "" THEN
       /\ parse' = Returned(mockLLM_Parse(searchTerm.v))
       /\ Reply(200, mockLLM_Parse(searchTerm.v))
       /\ llmCalls' = 0
     ELSE IF ~constructs THEN
       \* new GoogleGenAI(...) throws: realLLM_Parse rejects, the
       \* handler's catch answers
       /\ parse' = Rejected
       /\ Reply(500, Message(M_AIFailed))
       /\ llmCalls' = 0
     ELSE
       /\ parse' = Pending
       /\ llmCalls' = 1
       /\ res' = NoResponse
       /\ pc' = "awaitLLM"
  /\ UNCHANGED <<AI_API_KEY, TMDB_TOKEN>>

\* a request of any client
handler_ai_search_parser ==
  /\ pc = "idle"
  /\ \E method \in Methods, searchTerm \in SearchTermParams, constructs \in BOOLEAN :
       parser_begin(method, searchTerm, constructs)
  /\ UNCHANGED browser

\* generateContent completes: the rest of realLLM_Parse, then the handler
\* answers 200 with what it returned
handler_ai_search_parser_resume ==
  /\ pc = "awaitLLM"
  /\ \E outcome \in LLMOutcomes :
       LET result == realLLM_Parse_resume(req.query.searchTerm.v, outcome) IN
       /\ parse' = Returned(result)
       /\ upstream' = outcome
       /\ Reply(200, result)
  /\ UNCHANGED <<AI_API_KEY, TMDB_TOKEN, endpoint, req, tmdbUrl, llmCalls, fetchCalls,
                 browser>>

(***************************************************************************)
(* The Catalog Gateway: URL and URLSearchParams                            *)
(***************************************************************************)
TMDB_API_ORIGIN == "https://api.themoviedb.org"

V_en_US == <<"e","n","-","U","S">>
V_1     == <<"1">>
V_false == <<"f","a","l","s","e">>
V_fr    == <<"f","r">>
V_2     == <<"2">>
V_true  == <<"t","r","u","e">>
V_Dune  == <<"D","u","n","e">>
V_x     == <<"x">>

P_with_query == "discover/movie?language=fr&page=2"
P_list       == "movie/popular,search/movie"

\* values of the path parameter that are strings
Paths ==
  { "movie/popular", "search/movie", "discover/movie", P_with_query,
    "/movie/popular", "//evil.example/x", "https://evil.example/x",
    "../../etc", "", "https://" }

\* req.query.path: absent, repeated (a list), or a string
PathParams ==
  {JSUndefined, JSArr(<<"movie/popular", "search/movie">>)}
    \cup {JSStr(p) : p \in Paths}

\* the string the URL constructor makes of its first argument
PathString(path) ==
  CASE path.t = "string"    -> path.v
    [] path.t = "array"     -> P_list
    [] path.t = "undefined" -> "undefined"

URLOf(origin, pathname, searchParams) ==
  [throws |-> FALSE, origin |-> origin, pathname |-> pathname,
   searchParams |-> searchParams]

\* new URL(path, 'https://api.themoviedb.org/3/'), by the URL standard's
\* relative resolution, on the paths above
NewURL(path) ==
  CASE path = "movie/popular"  -> URLOf(TMDB_API_ORIGIN, "/3/movie/popular", <<>>)
    [] path = "search/movie"   -> URLOf(TMDB_API_ORIGIN, "/3/search/movie", <<>>)
    [] path = "discover/movie" -> URLOf(TMDB_API_ORIGIN, "/3/discover/movie", <<>>)
    [] path = P_with_query     ->
         URLOf(TMDB_API_ORIGIN, "/3/discover/movie",
               << <<"language", V_fr>>, <<"page", V_2>> >>)
    [] path = P_list           ->
         URLOf(TMDB_API_ORIGIN, "/3/movie/popular,search/movie", <<>>)
    [] path = "undefined"      -> URLOf(TMDB_API_ORIGIN, "/3/undefined", <<>>)
    [] path = "/movie/popular" -> URLOf(TMDB_API_ORIGIN, "/movie/popular", <<>>)
    [] path = "//evil.example/x"       -> URLOf("https://evil.example", "/x", <<>>)
    [] path = "https://evil.example/x" -> URLOf("https://evil.example", "/x", <<>>)
    [] path = "../../etc"      -> URLOf(TMDB_API_ORIGIN, "/etc", <<>>)
    [] path = ""               -> URLOf(TMDB_API_ORIGIN, "/3/", <<>>)
    [] path = "https://"       ->
         [throws |-> TRUE, origin |-> "", pathname |-> "", searchParams |-> <<>>]

\* URLSearchParams.set: the first pair named k takes the value, later pairs
\* named k are removed; with no such pair, one is appended
RECURSIVE setFrom(_, _, _, _)
setFrom(sp, k, v, found) ==
  IF sp = <<>> THEN (IF found THEN <<>> ELSE << <<k, v>> >>)
  ELSE IF Head(sp)[1] = k
    THEN (IF found THEN <<>> ELSE << <<k, v>> >>) \o setFrom(Tail(sp), k, v, TRUE)
    ELSE <<Head(sp)>> \o setFrom(Tail(sp), k, v, found)

searchParams_set(sp, k, v) == setFrom(sp, k, v, FALSE)

\* the three fixed parameters
setDefaults(sp) ==
  searchParams_set(
    searchParams_set(
      searchParams_set(sp, "language", V_en_US),
      "page", V_1),
    "include_adult", V_false)

(***************************************************************************)
(* Gateway requests: the parameters besides path, in the order req.query   *)
(* lists them                                                              *)
(***************************************************************************)
ParamKeys == {"query", "language", "page", "include_adult", "with_genres"}

CallerValue(k) ==
  CASE k = "query"         -> V_Dune
    [] k = "language"      -> V_fr
    [] k = "page"          -> V_2
    [] k = "include_adult" -> V_true
    [] k = "with_genres"   -> V_878

\* a parameter arrives empty, with a value, or repeated (a list)
ParamValues(k) ==
  { JSStr(<<>>), JSStr(CallerValue(k)), JSArr(<<CallerValue(k), V_x>>) }

KeysOf(r) == {r[i][1] : i \in 1..Len(r)}

RECURSIVE RestsOf(_)
RestsOf(n) ==
  IF n = 0 THEN {<<>>}
  ELSE LET P == RestsOf(n - 1) IN
       P \cup UNION { UNION { { Append(r, <<k, v>>) : v \in ParamValues(k) } :
                              k \in ParamKeys \ KeysOf(r) } :
                      r \in {q \in P : Len(q) = n - 1} }

Rests == RestsOf(MaxParams)

\* rest[key] as the handler reads it: undefined when the key is absent
ParamOf(rest, key) ==
  IF key \in KeysOf(rest)
    THEN rest[CHOOSE i \in 1..Len(rest) : rest[i][1] = key][2]
    ELSE JSUndefined

(***************************************************************************)
(* Outcomes of the gateway's fetch: it rejects (the call cannot complete), *)
(* or resolves with a status and a body                                    *)
(***************************************************************************)
ProviderStatuses == {200, 201, 404, 502}
ProviderBodies   == {B_results, B_no_results, B_error, B_html}

FetchOutcomes ==
  { [kind |-> "rejects", status |-> 0, body |-> ""] }
    \cup { [kind |-> "response", status |-> st, body |-> b] :
             st \in ProviderStatuses, b \in ProviderBodies }

\* Response.ok
ResponseOk(status) == status \in 200..299

(***************************************************************************)
(* The checks both handler definitions of tmdb-proxy.ts start with: the    *)
(* status they answer at once, or 0 to go on                               *)
(***************************************************************************)
\* variant testing the path before the credential: the sensitivity test of C8
proxy_precheck_PathFirst(method, path, token) ==
  IF method # "GET" THEN 405
  ELSE IF typeof(path) # "string" THEN 400
  ELSE IF token = "" THEN 500
  ELSE 0

\* variant testing only that path is present: the sensitivity test of C9
proxy_precheck_PathPresent(method, path, token) ==
  IF method # "GET" THEN 405
  ELSE IF token = "" THEN 500
  ELSE IF path.t = "undefined" THEN 400
  ELSE 0

proxy_precheck(method, path, token) ==
  IF method # "GET" THEN 405
  ELSE IF token = "" THEN 500
  ELSE IF typeof(path) # "string" THEN 400
  ELSE 0

PrecheckBody(status) ==
  CASE status = 405 -> Message(M_MethodNotAllowed)
    [] status = 500 -> Message(M_ConfigError)
    [] status = 400 -> Message(M_BadPath)

\* the handler of lines 6-58 copies the query parameter alone, if it is a
\* non-empty string, and then sets the three fixed parameters
buildUrl_queryOnly(url, rest) ==
  LET query == ParamOf(rest, "query")
      sp1   == IF truthy(query) /\ typeof(query) = "string"
                 THEN searchParams_set(url.searchParams, "query", query.v)
                 ELSE url.searchParams
  IN  [url EXCEPT !.searchParams = setDefaults(sp1)]

\* Object.entries(rest).forEach of lines 95-101
RECURSIVE copyRest(_, _)
copyRest(sp, rest) ==
  IF rest = <<>> THEN sp
  ELSE LET key   == Head(rest)[1]
           value == Head(rest)[2]
           finalValue == IF value.t = "array" THEN value.items[1] ELSE value.v
       IN  IF truthy(value)
             THEN copyRest(searchParams_set(sp, key, finalValue), Tail(rest))
             ELSE copyRest(sp, Tail(rest))

\* the handler of lines 67-127 sets the three fixed parameters first and
\* then copies every parameter of rest whose value is truthy
buildUrl_rest(url, rest) ==
  [url EXCEPT !.searchParams = copyRest(setDefaults(url.searchParams), rest)]

\* the response the handler makes of the fetch outcome (the try and catch
\* blocks, the same in both definitions)
\* variant relaying only the results array: the sensitivity test of C11
relay_ResultsOnly(outcome) ==
  IF outcome.kind = "rejects"
    THEN [status |-> 500, body |-> Message(M_NetworkError)]
  ELSE LET data == JSON_parse(outcome.body) IN
       IF ~data.ok
         THEN [status |-> 500, body |-> Message(M_NetworkError)]
       ELSE IF ~ResponseOk(outcome.status)
         THEN [status |-> outcome.status,
               body |-> JSObj(("message" :> JSStr(<<M_TMDBFailed, outcome.status>>))
                                @@ ("details" :> data.value))]
       ELSE [status |-> 200, body |-> GetProp(data.value, "results").value]

relay(outcome) ==
  IF outcome.kind = "rejects"
    THEN [status |-> 500, body |-> Message(M_NetworkError)]
  ELSE LET data == JSON_parse(outcome.body) IN
       IF ~data.ok
         THEN [status |-> 500, body |-> Message(M_NetworkError)]
       ELSE IF ~ResponseOk(outcome.status)
         THEN [status |-> outcome.status,
               body |-> JSObj(("message" :> JSStr(<<M_TMDBFailed, outcome.status>>))
                                @@ ("details" :> data.value))]
       ELSE [status |-> 200, body |-> data.value]

\* a handler of tmdb-proxy.ts up to its fetch; an exception of new URL is
\* caught by nobody and the framework answers 500
proxy_begin(ep, method, path, rest, url) ==
  /\ endpoint' = ep
  /\ req' = [method |-> method, query |-> [path |-> path, rest |-> rest]]
  /\ parse' = NotCalled
  /\ upstream' = NoOutcome
  /\ llmCalls' = 0
  /\ IF proxy_precheck(method, path, TMDB_TOKEN) # 0 THEN
       /\ Reply(proxy_precheck(method, path, TMDB_TOKEN),
                PrecheckBody(proxy_precheck(method, path, TMDB_TOKEN)))
       /\ tmdbUrl' = NoURL
       /\ fetchCalls' = 0
     ELSE IF NewURL(PathString(path)).throws THEN
       /\ Reply(500, JSStr("Internal Server Error"))
       /\ tmdbUrl' = NoURL
       /\ fetchCalls' = 0
     ELSE
       /\ tmdbUrl' = url
       /\ fetchCalls' = 1
       /\ res' = NoResponse
       /\ pc' = "awaitTMDB"
  /\ UNCHANGED <<AI_API_KEY, TMDB_TOKEN>>

\* export default handler, lines 6-58
handler_tmdb_proxy_queryOnly ==
  /\ pc = "idle"
  /\ \E method \in Methods, path \in PathParams, rest \in Rests :
       proxy_begin("tmdb-proxy:6", method, path, rest,
                   buildUrl_queryOnly(NewURL(PathString(path)), rest))
  /\ UNCHANGED browser

\* export default handler, lines 67-127
handler_tmdb_proxy ==
  /\ pc = "idle"
  /\ \E method \in Methods, path \in PathParams, rest \in Rests :
       proxy_begin("tmdb-proxy:67", method, path, rest,
                   buildUrl_rest(NewURL(PathString(path)), rest))
  /\ UNCHANGED browser

\* the fetch completes and the handler answers
handler_tmdb_proxy_resume ==
  /\ pc = "awaitTMDB"
  /\ \E outcome \in FetchOutcomes :
       /\ res' = relay(outcome)
       /\ pc' = "done"
       /\ upstream' = outcome
  /\ UNCHANGED <<AI_API_KEY, TMDB_TOKEN, endpoint, req, parse, tmdbUrl,
                 llmCalls, fetchCalls, browser>>

\* The response has been sent and the invocation is over: req, res and every
\* local of the handler are gone; only the process configuration remains.
\* A response the page still awaits stays until the page has read it.
invocation_ends ==
  /\ pc = "done"
  /\ browser.pc \notin {"awaitParser", "awaitProxy"}
  /\ pc' = "idle"
  /\ endpoint' = "none"
  /\ req' = [method |-> "GET", query |-> <<>>]
  /\ res' = NoResponse
  /\ parse' = NotCalled
  /\ tmdbUrl' = NoURL
  /\ upstream' = NoOutcome
  /\ llmCalls' = 0
  /\ fetchCalls' = 0
  /\ UNCHANGED <<AI_API_KEY, TMDB_TOKEN, browser>>

(***************************************************************************)
(* The page (src/app/page.tsx): handleSearch and fetchProxy.  One search   *)
(* is in flight at a time.  browser.calls lists the endpoints the search   *)
(* has called, in order.                                                   *)
(***************************************************************************)
NoParams == [path |-> JSUndefined, rest |-> <<>>]

\* the component after its first render: searchStatus 'IDLE', nothing
\* submitted
PageLoaded ==
  [pc |-> "idle", searchStatus |-> "IDLE", submitted |-> FALSE,
   trimmedSearchTerm |-> <<>>, calls |-> <<>>, parserResponse |-> NoResponse,
   tmdbParams |-> NoParams]

\* the order in which the descriptors of ai-search-parser.ts and the texts
\* above list the keys of params (the order Object.entries and the spread
\* follow)
KeyOrder ==
  <<"path", "with_genres", "vote_average.gte", "primary_release_year", "sort_by",
    "query">>

RECURSIVE entriesFrom(_, _)
entriesFrom(fields, i) ==
  IF i > Len(KeyOrder) THEN <<>>
  ELSE (IF KeyOrder[i] \in DOMAIN fields
          THEN << <<KeyOrder[i], fields[KeyOrder[i]]>> >>
          ELSE <<>>) \o entriesFrom(fields, i + 1)

\* the own enumerable properties of x; the empty array has none
Object_entries(x) == IF x.t = "object" THEN entriesFrom(x.fields, 1) ELSE <<>>

\* { path, ...params }: a path property of params replaces path
spread(path, params) ==
  LET entries == Object_entries(params) IN
  [path |-> IF "path" \in KeysOf(entries) THEN ParamOf(entries, "path") ELSE path,
   rest |-> SelectSeq(entries, LAMBDA kv : kv[1] # "path")]

\* !params.path of fetchProxy; a path is a string atom here
fetchProxy_throws(params) ==
  params.path.t # "string" \/ params.path.v = ""

\* handleSearch from the parser's response to the call of the gateway: the
\* ok test, the type test, Object.keys(params) (a TypeError on null), the
\* spread, and fetchProxy up to its fetch; every throw lands in the catch
handleSearch_afterParser(b, response) ==
  LET parsedData == response.body
      path       == GetProp(parsedData, "path").value
      params     == GetProp(parsedData, "params").value
      tmdbParams == spread(path, params)
  IN  IF \/ ~ResponseOk(response.status)
         \/ typeof(path) # "string"
         \/ typeof(params) # "object"
         \/ params.t = "null"
         \/ fetchProxy_throws(tmdbParams)
        THEN [b EXCEPT !.pc = "idle", !.searchStatus = "ERROR",
                       !.parserResponse = response]
        ELSE [b EXCEPT !.pc = "sendProxy", !.parserResponse = response,
                       !.tmdbParams = tmdbParams,
                       !.calls = Append(@, "tmdb-proxy")]

\* the form is submitted: a blank term ends the search at once, any other
\* sets LOADING and fetches the parser endpoint.  Searches follow one
\* another: the invocations serving the previous one are over (they leave
\* nothing behind on the server).
handleSearch ==
  /\ browser.pc = "idle"
  /\ pc = "idle"
  /\ \E searchTerm \in Terms :
       LET trimmedSearchTerm == trim(searchTerm) IN
       browser' =
         IF trimmedSearchTerm = <<>>
           THEN [PageLoaded EXCEPT !.submitted = TRUE]
           ELSE [PageLoaded EXCEPT !.submitted = TRUE, !.pc = "sendParser",
                                   !.searchStatus = "LOADING",
                                   !.trimmedSearchTerm = trimmedSearchTerm,
                                   !.calls = <<"ai-search-parser">>]
  /\ UNCHANGED <<AI_API_KEY, TMDB_TOKEN, pc, endpoint, req, res, parse, tmdbUrl,
                 upstream, llmCalls, fetchCalls>>

\* a fetch of the page rejects (the server is not reached): the catch of
\* handleSearch
fetch_rejects ==
  /\ browser.pc \in {"sendParser", "sendProxy"}
  /\ browser' = [browser EXCEPT !.pc = "idle", !.searchStatus = "ERROR"]
  /\ UNCHANGED <<AI_API_KEY, TMDB_TOKEN, pc, endpoint, req, res, parse, tmdbUrl,
                 upstream, llmCalls, fetchCalls>>

\* the page's request reaches the parser endpoint
handler_ai_search_parser_fromPage ==
  /\ browser.pc = "sendParser"
  /\ pc = "idle"
  /\ \E constructs \in BOOLEAN :
       parser_begin("GET", JSStr(browser.trimmedSearchTerm), constructs)
  /\ browser' = [browser EXCEPT !.pc = "awaitParser"]

\* the parser's response arrives
handleSearch_parserResponse ==
  /\ browser.pc = "awaitParser"
  /\ pc = "done"
  /\ browser' = handleSearch_afterParser(browser, res)
  /\ UNCHANGED <<AI_API_KEY, TMDB_TOKEN, pc, endpoint, req, res, parse, tmdbUrl,
                 upstream, llmCalls, fetchCalls>>

\* the page's request reaches the gateway, served by either definition of
\* its handler
handler_tmdb_proxy_fromPage ==
  /\ browser.pc = "sendProxy"
  /\ pc = "idle"
  /\ LET path == browser.tmdbParams.path
         rest == browser.tmdbParams.rest
     IN  \/ proxy_begin("tmdb-proxy:6", "GET", path, rest,
                        buildUrl_queryOnly(NewURL(PathString(path)), rest))
         \/ proxy_begin("tmdb-proxy:67", "GET", path, rest,
                        buildUrl_rest(NewURL(PathString(path)), rest))
  /\ browser' = [browser EXCEPT !.pc = "awaitProxy"]

\* the gateway's response arrives: the rest of fetchProxy (response.json()
\* throws on a body that is not JSON) and of handleSearch
fetchProxy_response ==
  /\ browser.pc = "awaitProxy"
  /\ pc = "done"
  /\ browser' =
       [browser EXCEPT !.pc = "idle",
                       !.searchStatus =
                          IF res.body.t = "string" \/ ~ResponseOk(res.status)
                            THEN "ERROR" ELSE "SUCCESS"]
  /\ UNCHANGED <<AI_API_KEY, TMDB_TOKEN, pc, endpoint, req, res, parse, tmdbUrl,
                 upstream, llmCalls, fetchCalls>>

Init ==
  /\ AI_API_KEY \in {"", "ai-key"}
  /\ TMDB_TOKEN \in {"", "tmdb-token"}
  /\ pc = "idle"
  /\ endpoint = "none"
  /\ req = [method |-> "GET", query |-> <<>>]
  /\ res = NoResponse
  /\ parse = NotCalled
  /\ tmdbUrl = NoURL
  /\ upstream = NoOutcome
  /\ llmCalls = 0
  /\ fetchCalls = 0
  /\ browser = PageLoaded

Next ==
  \/ handler_ai_search_parser
  \/ handler_ai_search_parser_resume
  \/ handler_tmdb_proxy_queryOnly
  \/ handler_tmdb_proxy
  \/ handler_tmdb_proxy_resume
  \/ invocation_ends

Spec == Init /\ [][Next]_vars

\* the page and the two endpoints serving it
NextPage ==
  \/ handleSearch
  \/ fetch_rejects
  \/ handler_ai_search_parser_fromPage
  \/ handler_ai_search_parser_resume
  \/ handleSearch_parserResponse
  \/ handler_tmdb_proxy_fromPage
  \/ handler_tmdb_proxy_resume
  \/ fetchProxy_response
  \/ invocation_ends

SpecPage == Init /\ [][NextPage]_vars

(***************************************************************************)
(* Properties of the Intent Parser                                         *)
(***************************************************************************)
ParserDone == endpoint = "ai-search-parser" /\ pc = "done"

\* the search term realLLM_Parse was called with
ParsedTerm == req.query.searchTerm.v

\* a and b are the same letter, b in lower case
SameLetter(a, b) ==
  a = b \/ \E i \in 1..26 : UpperCase[i] = a /\ LowerCase[i] = b

\* s contains the lower-case phrase k in some letter case
ContainsAnyCase(s, k) ==
  \E i \in 0..(Len(s) - Len(k)) :
    \A j \in 1..Len(k) : SameLetter(s[i + j], k[j])

\* C1: realLLM_Parse never rejects, whatever the input and whatever happens
\* at client construction or in the remote call, so that the endpoint never
\* answers 500.
C1_ParseNeverRejects ==
  ParserDone => (parse.state # "rejected" /\ res.status # 500)

\* the remote outcomes C2 lists: transport or service error, missing or
\* empty response text, text that is not JSON, and parsed JSON whose path
\* is not a string or whose params is not of type object
C2_FailureOutcomes ==
  { [kind |-> "rejects", text |-> ""], [kind |-> "no_text", text |-> ""] }
    \cup { [kind |-> "text", text |-> t] :
             t \in { "", T_blank, T_not_json, T_null, T_number, T_empty_object,
                     T_path_number, T_params_string, T_no_params } }

C3_SciFiRule ==
  (ParserDone /\ AI_API_KEY = "" /\ parse.state = "returned"
     /\ (ContainsAnyCase(ParsedTerm, KW_sci_fi)
           \/ ContainsAnyCase(ParsedTerm, KW_mind_bending)))
  => /\ parse.result =
          SearchIntent("discover/movie",
                       ("with_genres" :> JSStr(V_878)) @@ ("vote_average.gte" :> JSStr(V_7_5)))
     /\ res = [status |-> 200, body |-> parse.result]

\* "SCI-Fi" followed by text that matches the later "best" rule
C3_Witness ==
  /\ ParserDone /\ AI_API_KEY = "" /\ parse.state = "returned"
  /\ ParsedTerm = <<"S","C","I","-","F","i","b","e","s","t">>
  /\ GetProp(parse.result, "path").value = JSStr("discover/movie")
  /\ "with_genres" \in DOMAIN GetProp(parse.result, "params").value.fields

\* C4: first match wins, the specific phrase before the generic one: input
\* containing "best of 2024" or "newest hits" and neither "mind-bending" nor
\* "sci-fi" gives { "vote_average.gte": "7", primary_release_year: "2024" },
\* never the "best"/"top rated" result.
C4_SpecificBeforeGeneric ==
  (ParserDone /\ AI_API_KEY = "" /\ parse.state = "returned"
     /\ (ContainsAnyCase(ParsedTerm, KW_best_of_2024)
           \/ ContainsAnyCase(ParsedTerm, KW_newest_hits))
     /\ ~ContainsAnyCase(ParsedTerm, KW_sci_fi)
     /\ ~ContainsAnyCase(ParsedTerm, KW_mind_bending))
  => /\ parse.result =
          SearchIntent("discover/movie",
                       ("vote_average.gte" :> JSStr(V_7))
                         @@ ("primary_release_year" :> JSStr(V_2024)))
     /\ parse.result # TopRatedIntent

\* "best" and " of 2024" arriving as two pieces, which also contains "best"
C4_Witness ==
  /\ ParserDone /\ AI_API_KEY = "" /\ parse.state = "returned"
  /\ ParsedTerm = <<"b","e","s","t"," ","o","f"," ","2","0","2","4">>
  /\ ContainsAnyCase(ParsedTerm, KW_best)
  /\ "primary_release_year" \in DOMAIN GetProp(parse.result, "params").value.fields

\* whether a term matches any keyword rule
MatchesAnyRule(s) ==
  \E k \in { KW_mind_bending, KW_sci_fi, KW_best_of_2024, KW_newest_hits,
             KW_best, KW_top_rated } : ContainsAnyCase(s, k)

\* C5: without a credential, input that matches no keyword rule gives
\* search/movie with params.query equal to the input exactly as received,
\* neither lower-cased nor trimmed.
C5_QueryIsOriginalInput ==
  (ParserDone /\ AI_API_KEY = "" /\ parse.state = "returned"
     /\ ~MatchesAnyRule(ParsedTerm))
  => parse.result = SearchIntent("search/movie", ("query" :> JSStr(ParsedTerm)))

(***************************************************************************)
(* Properties of the Catalog Gateway                                       *)
(***************************************************************************)
GatewayServing == endpoint \in {"tmdb-proxy:6", "tmdb-proxy:67"}

\* the request reached the outbound call
GatewayFetched == GatewayServing /\ fetchCalls >= 1

\* URLSearchParams.getAll: the values the outbound query string carries
\* under key k, in order
RECURSIVE getAll(_, _)
getAll(sp, k) ==
  IF sp = <<>> THEN <<>>
  ELSE (IF Head(sp)[1] = k THEN <<Head(sp)[2]>> ELSE <<>>) \o getAll(Tail(sp), k)

\* C6: for every request the gateway accepts, the outbound query string
\* carries language=en-US, page=1 and include_adult=false, whatever the
\* caller supplied: a caller's value never replaces a fixed one.
C6_FixedDefaultsAlwaysWin ==
  GatewayFetched =>
    /\ getAll(tmdbUrl.searchParams, "language") = <<V_en_US>>
    /\ getAll(tmdbUrl.searchParams, "page") = <<V_1>>
    /\ getAll(tmdbUrl.searchParams, "include_adult") = <<V_false>>

\* the value a parameter is to be forwarded with: itself, or the first of
\* a list
FirstValue(value) == IF value.t = "array" THEN value.items[1] ELSE value.v

\* C7: for every request the gateway accepts, every incoming parameter
\* other than path is in the outbound request under the same key with the
\* same value (empty strings and keys other than query included), a list
\* by its first value.
C7_EveryParameterForwarded ==
  GatewayFetched =>
    \A i \in 1..Len(req.query.rest) :
      getAll(tmdbUrl.searchParams, req.query.rest[i][1])
        = <<FirstValue(req.query.rest[i][2])>>

\* C8: with the catalog credential unset, every GET request, its path
\* present and valid or not, is answered 500 with the configuration-error
\* message, and no outbound call is made.
C8_NoTokenGives500 ==
  (GatewayServing /\ req.method = "GET" /\ TMDB_TOKEN = "")
  => /\ pc = "done"
     /\ res = [status |-> 500, body |-> Message(M_ConfigError)]
     /\ fetchCalls = 0
     /\ tmdbUrl = NoURL

\* a GET without any path, and no credential
C8_Witness ==
  /\ GatewayServing /\ req.method = "GET" /\ TMDB_TOKEN = ""
  /\ req.query.path = JSUndefined
  /\ res.status = 500

\* C9: with the credential set, a GET whose path is missing or is not a
\* single string is answered 400 without an outbound call; and every
\* request that reaches the outbound call has a path that is a string.
C9_BadPathGives400 ==
  /\ (GatewayServing /\ req.method = "GET" /\ TMDB_TOKEN # ""
        /\ req.query.path.t # "string")
     => /\ pc = "done"
        /\ res = [status |-> 400, body |-> Message(M_BadPath)]
        /\ fetchCalls = 0
  /\ GatewayFetched => req.query.path.t = "string"

\* a GET whose path arrived twice, as a list
C9_Witness ==
  /\ GatewayServing /\ req.method = "GET" /\ TMDB_TOKEN # ""
  /\ req.query.path.t = "array"
  /\ res.status = 400

\* C10: whenever the provider answers with a non-success status s, whatever
\* its body, the gateway answers with status s and a body { message,
\* details } whose details is the provider's payload.
C10_ProviderStatusPropagated ==
  (GatewayServing /\ pc = "done" /\ upstream.kind = "response"
     /\ ~ResponseOk(upstream.status))
  => /\ res.status = upstream.status
     /\ DOMAIN res.body.fields = {"message", "details"}
     /\ JSON_parse(upstream.body).ok
          => res.body.fields["details"] = JSON_parse(upstream.body).value


\* the provider answered: the fetch resolved with a response
ProviderAnswered == GatewayServing /\ pc = "done" /\ upstream.kind = "response"

\* C11: whenever the provider answers with a success status, the gateway
\* answers 200 with a body equal to the provider's JSON body, unchanged,
\* with a results array or without.
C11_SuccessRelayedUnchanged ==
  (ProviderAnswered /\ ResponseOk(upstream.status) /\ JSON_parse(upstream.body).ok)
  => res = [status |-> 200, body |-> JSON_parse(upstream.body).value]

\* the provider answers 201 with a JSON body that has no results array
C11_Witness ==
  /\ ProviderAnswered
  /\ upstream.status = 201 /\ upstream.body = B_no_results
  /\ res.status = 200
  /\ DOMAIN res.body.fields = {"page"}

\* C12: the gateway answers 500 with the network-error message if and only
\* if the outbound call fails at the transport level; a call that completes
\* with a provider status is never reported as a network error.
C12_NetworkErrorIffTransportFailure ==
  (GatewayServing /\ pc = "done" /\ upstream.kind # "none")
  => ((res = [status |-> 500, body |-> Message(M_NetworkError)])
        <=> upstream.kind = "rejects")


\* a string of white space only (the empty string included)
Blank(str) == \A i \in 1..Len(str) : str[i] \in WhiteSpace

\* a body of the shape of a SearchIntent: an object whose path is a string
\* and whose params is a mapping of named fields
IsSearchIntent(b) ==
  /\ b.t = "object"
  /\ {"path", "params"} \subseteq DOMAIN b.fields
  /\ b.fields["path"].t = "string"
  /\ b.fields["params"].t = "object"

\* C13: the Intent Parser endpoint maps each request to exactly one outcome:
\* 405 for a method other than GET; 400, without calling parse, for a GET
\* whose searchTerm is missing, a list, or blank; 200 with a SearchIntent
\* body for every other GET.
C13_ParserEndpointOutcomes ==
  ParserDone =>
    IF req.method # "GET"
      THEN res.status = 405 /\ parse.state = "not_called" /\ llmCalls = 0
    ELSE IF req.query.searchTerm.t # "string" \/ Blank(req.query.searchTerm.v)
      THEN res.status = 400 /\ parse.state = "not_called" /\ llmCalls = 0
    ELSE res.status = 200 /\ IsSearchIntent(res.body)


\* a handler is serving a request (it has started and may have answered)
ParserServing == endpoint = "ai-search-parser"

\* the gateway accepts the request: GET, credential set, path a string
GatewayAccepts ==
  req.method = "GET" /\ TMDB_TOKEN # "" /\ req.query.path.t = "string"

\* the parser endpoint passes the request to parse
ParserAccepts ==
  /\ req.method = "GET"
  /\ req.query.searchTerm.t = "string"
  /\ ~Blank(req.query.searchTerm.v)

\* C14: each handler invocation makes at most one outbound call and never
\* retries: the gateway exactly one for an accepted request and none for a
\* rejected one; the parser none when its credential is absent or the input
\* is rejected and exactly one otherwise, also when that call fails.
C14_ExactlyOneOutboundCall ==
  /\ llmCalls + fetchCalls <= 1
  /\ GatewayServing => fetchCalls = (IF GatewayAccepts THEN 1 ELSE 0)
  /\ ParserServing =>
       llmCalls = (IF AI_API_KEY # "" /\ ParserAccepts THEN 1 ELSE 0)


\* realLLM_Parse returned after its remote call
RemoteReturned ==
  ParserDone /\ parse.state = "returned" /\ llmCalls = 1

\* the remote call produced text that parses to a value of the shape of a
\* SearchIntent
WellShapedOutput ==
  /\ upstream.kind = "text"
  /\ upstream.text # ""
  /\ JSON_parse(text_trim(upstream.text)).ok
  /\ IsSearchIntent(JSON_parse(text_trim(upstream.text)).value)

\* C15: on the remote path parse returns the model's parsed output only if
\* its path is a string and its params is an object (a mapping of named
\* fields); any other shape (params null, an array or absent, the parsed
\* value null or no object) is replaced by the minimal fallback descriptor.
C15_OnlyWellShapedOutputReturned ==
  RemoteReturned =>
    parse.result =
      (IF WellShapedOutput
         THEN JSON_parse(text_trim(upstream.text)).value
         ELSE SearchIntent("search/movie", ("query" :> JSStr(ParsedTerm))))


\* the data-model invariant of a SearchIntent: one of the two routes, and a
\* query exactly on the search route
SatisfiesIntentInvariant(r) ==
  /\ IsSearchIntent(r)
  /\ r.fields["path"].v \in {"search/movie", "discover/movie"}
  /\ ("query" \in DOMAIN r.fields["params"].fields)
       <=> (r.fields["path"].v = "search/movie")

\* C16 as stated: every SearchIntent parse returns (by the keyword
\* heuristic, by the minimal fallback or from the remote model's output)
\* has a path among "search/movie" and "discover/movie", and a query in its
\* params exactly when the path is "search/movie".
C16_EveryIntentSatisfiesInvariant ==
  (ParserDone /\ parse.state = "returned")
  => SatisfiesIntentInvariant(parse.result)

\* C16 as amended: every SearchIntent parse returns by the keyword heuristic
\* or by the minimal fallback satisfies the data-model invariant; output
\* taken from the remote model is returned without being held to it.
C16_HeuristicAndFallbackSatisfyInvariant ==
  (ParserDone /\ parse.state = "returned"
     /\ (AI_API_KEY = "" \/ upstream \in C2_FailureOutcomes))
  => SatisfiesIntentInvariant(parse.result)

\* the heuristic's "top rated" result: the discover route, no query
C16_Witness ==
  /\ ParserDone /\ parse.state = "returned" /\ AI_API_KEY = ""
  /\ ParsedTerm = <<"T","o","p"," ","R","a","t","e","d">>
  /\ parse.result.fields["path"].v = "discover/movie"
  /\ "query" \notin DOMAIN parse.result.fields["params"].fields


\* the pathnames of the model's URLs that lie under the base path /3/
PathnamesUnderBase ==
  { "/3/", "/3/movie/popular", "/3/search/movie", "/3/discover/movie",
    "/3/movie/popular,search/movie", "/3/undefined" }

\* C17: every outbound call of the gateway, and so every request carrying
\* the bearer credential, goes to a URL under https://api.themoviedb.org/3/,
\* for every string value of the caller's path (an absolute URL, a path
\* starting with "/" or "//", a path with "..", the empty string).
C17_OutboundUnderBaseAddress ==
  GatewayFetched =>
    /\ tmdbUrl.origin = TMDB_API_ORIGIN
    /\ tmdbUrl.pathname \in PathnamesUnderBase


(***************************************************************************)
(* Properties of the page's search flow                                    *)
(***************************************************************************)
PageCalledGateway ==
  \E i \in 1..Len(browser.calls) : browser.calls[i] = "tmdb-proxy"

\* the path and params of the parser's answer as the page received it
AnsweredPath   == GetProp(browser.parserResponse.body, "path").value
AnsweredParams == GetProp(browser.parserResponse.body, "params").value

\* the parser answered successfully with a string path and an object
\* params (an object in the language's sense: an array counts)
ParserAnsweredWell ==
  /\ ResponseOk(browser.parserResponse.status)
  /\ AnsweredPath.t = "string"
  /\ AnsweredParams.t \in {"object", "array"}

\* the parser call of the current search is over
ParserCallOver ==
  browser.calls # <<>> /\ browser.pc \notin {"sendParser", "awaitParser"}

\* the order of the calls and the outcome of a failed parser call or a
\* blank term
SearchFlowOrder ==
  /\ browser.pc # "idle" => browser.searchStatus = "LOADING"
  /\ browser.calls # <<>> => browser.calls[1] = "ai-search-parser"
  /\ browser.pc \in {"sendParser", "awaitParser"} => ~PageCalledGateway
  /\ PageCalledGateway =>
        browser.calls = <<"ai-search-parser", "tmdb-proxy">> /\ ParserAnsweredWell
  /\ (ParserCallOver /\ ~ParserAnsweredWell) =>
        ~PageCalledGateway /\ browser.searchStatus = "ERROR"
  /\ (browser.submitted /\ browser.trimmedSearchTerm = <<>>) =>
        browser.calls = <<>> /\ browser.searchStatus = "IDLE" /\ browser.pc = "idle"

\* C18: a submit with a non-blank term sets searchStatus to LOADING and
\* calls the parser endpoint first; the gateway endpoint is called only
\* after the parser has answered successfully with a string path and an
\* object params, and the request's path is that path; when the parser
\* call fails or answers another shape, no gateway call is made and
\* searchStatus is ERROR; a submit with a blank term issues no request and
\* leaves searchStatus IDLE.
C18_SearchFlow ==
  /\ SearchFlowOrder
  /\ PageCalledGateway => browser.tmdbParams.path = AnsweredPath

====
